---- MODULE Spec2Model ----
(***************************************************************************)
(* The extension host process bridge of                                    *)
(* packages/core-electron-main/src/bootstrap/window.ts:                    *)
(*   CodeWindow     one native window, the KTNodeProcess it holds and the  *)
(*                  'window-metadata' handler it registers;                *)
(*   KTNodeProcess  forks the extension host child and keeps the one-shot  *)
(*                  promise `ready` that the child's control channel       *)
(*                  settles.                                               *)
(* Objects live in three heaps (nodes, promises, procs); references are    *)
(* indices into them and 0 is null/undefined.  The host runs one event     *)
(* loop: an action is one synchronous run of host code, an API call or an  *)
(* event handler, and an event handler that settles a promise also runs    *)
(* the continuations awaiting it.  A continuation queued by an API call    *)
(* (fork threw inside start()) is a step of its own, which runs before any *)
(* further event is handled.                                               *)
(*                                                                         *)
(* Spec      the application's windows: start/clear/dispose/close on each, *)
(*           the native 'closed' event and the events of the children.     *)
(* SpecNode  KTNodeProcess objects used directly, and their children,      *)
(*           including a child that exits.                                 *)
(* SpecUI    one window with its children and the events of its content:   *)
(*           'did-finish-load' and 'new-window'.                           *)
(* SpecMeta  the 'window-metadata' channel: windows constructed with any   *)
(*           metadata argument, their disposal and the queries.            *)
(* SpecLife  the windows from start() to 'closed' and the queries, with    *)
(*           silent children.                                              *)
(* SpecFair  Spec's windows with every live child eventually signalling    *)
(*           and every queued continuation eventually run.                 *)
(*                                                                         *)
(* Four further components, each one object with its own state variable    *)
(* and its own specification; their collaborators outside the sources are  *)
(* the environment, whose promises settle either way at any later time:    *)
(* SpecExt         Extension (kaitian-extension/src/browser/extension.ts); *)
(* SpecCompletion  CompletionAdapter (unnamed/part_000);                   *)
(* SpecTerminal    TerminalImpl (unnamed/part_001);                        *)
(* SpecDebug       DebugContribution (debug/src/browser/                   *)
(*                 debug-contribution.ts).                                 *)
(***************************************************************************)
EXTENDS Integers, Sequences, FiniteSets, TLC

VARIABLES
  winNode,      \* CodeWindow.node of each window (window.ts:23)
  metaListener, \* the window's metadataResponser is registered on ipcMain (window.ts:56)
  browser,      \* CodeWindow.browser: the native window's state (window.ts:28)
  nodes,        \* heap of KTNodeProcess objects (window.ts:125)
  promises,     \* heap of the promises made at window.ts:138
  procs,        \* heap of the child processes forked at window.ts:150
  starts,       \* the CodeWindow.start() invocations, with their closures (window.ts:69)
  calls,        \* the promises returned to direct callers of KTNodeProcess.start()
  uuidCount,    \* number of uuid() tokens handed out so far
  nevents,      \* number of control-channel events delivered so far
  clearCalls,   \* per window: clear()/dispose() calls since its last start(), up to 2
  threw,        \* the methods that have thrown to their caller
  metadata,     \* per window: the constructor's `metadata` argument (window.ts:25)
  disposable,   \* per window: disposers held by Disposable, removeListener calls made
  query,        \* the last 'window-metadata' event emitted on ipcMain
  extension,    \* one Extension object, its service promises and its callers (extension.ts)
  adapter,      \* one CompletionAdapter, its cache and its calls (language/completion)
  terminal,     \* one TerminalImpl and the reads of its processId (terminal)
  debug         \* one DebugContribution and the debug sessions (debug-contribution.ts)

(* the state of the 'window-metadata' channel besides metaListener *)
ipcVars == <<metadata, disposable, query>>

(* the state of the components other than the window bridge *)
otherVars == <<extension, adapter, terminal, debug>>

(* the state of the window bridge of window.ts *)
windowVars == <<winNode, metaListener, browser, nodes, promises, procs, starts, calls,
                uuidCount, nevents, clearCalls, threw, ipcVars>>

vars == <<windowVars, otherVars>>

----------------------------------------------------------------------------
(* Bounds of the model.  The configuration has two windows. *)

MaxNodes == 2        \* CodeWindow.start() calls, each making one KTNodeProcess
MaxEvents == 2       \* control-channel events the children deliver
MaxLaunchers == 1    \* KTNodeProcess objects made by direct callers
MaxNodeStarts == 3   \* direct calls of KTNodeProcess.start()
MaxLoads == 2        \* 'did-finish-load' events of the windows' contents
MaxCalls == 3        \* calls of Extension.activate() and Extension.enable()
MaxProvides == 2     \* calls of CompletionAdapter.provideCompletionItems
MaxResolves == 1     \* calls of CompletionAdapter.resolveCompletionItem
MaxItems == 1        \* completion items in one list
MaxReads == 3        \* reads of TerminalImpl.processId
MaxStack == 3        \* nested calls the stack holds
MaxSessions == 2     \* debug sessions started
MaxOnStarts == 2     \* calls of DebugContribution.onStart

(* null / undefined references *)
NoNode == 0
NoProc == 0
NoPromise == 0
NoWindow == 0

(* browser.id of the application's windows *)
Windows == {1, 2}
(* the window whose content is followed in SpecUI *)
UIWindows == {1}
NoError == "none"
Errors == {"E1", "E2"}
SpawnError == "ENOENT"
ForkOutcomes == {"ok", SpawnError}
ObjectDestroyed == "Object has been destroyed"
Messages == {"ready", "other"}
Undefined == "undefined"

(* URLs a content may ask to open, as character sequences *)
Urls == { <<"h", "t", "t", "p", ":", "/", "/", "a">>,
          <<"h", "t", "t", "p", "s", ":", "/", "/", "a">>,
          <<"f", "i", "l", "e", ":", "/", "/", "/", "a">> }

(* JavaScript values of the metadata object: a string, undefined, and the *)
(* nested object `webview` with its two URI strings                       *)
Str(s) == <<"string", s>>
JsUndefined == <<"undefined">>
JsValue(x) == IF x = Undefined THEN JsUndefined ELSE Str(x)

(* URI.file(path).toString(), window.ts:48-49 *)
FileUri(path) == <<"file://", path>>

(* the `metadata` argument of the constructor; none is the empty object *)
NoExtra == [k \in {} |-> JsUndefined]
Extras == { NoExtra,
            [extensionDir |-> Str("/custom")],
            [workspace |-> Str("/other"), theme |-> Str("dark")],
            [webview |-> JsUndefined] }

(* identities a 'window-metadata' query may carry: a window's, or none's *)
QueryIds == Windows \cup {3}

(* no 'window-metadata' event has been emitted yet *)
NoQuery == [windowId |-> NoWindow, returnValue |-> <<>>, answeredBy |-> {}]

(* no 'new-window' event has been emitted yet *)
NoEvent == [url |-> <<>>, defaultPrevented |-> FALSE, opened |-> 0]
ExtensionEntry == "appConfig.extensionEntry"

(* the workspace each window was constructed with (window.ts:27) *)
workspace(w) == IF w = 1 THEN "/proj" ELSE Undefined

(* arguments direct callers of KTNodeProcess.start() pass *)
SockPath(token) == <<"os.tmpdir()", token, ".sock">>
CallerArgs == {<<SockPath(-1), "/proj">>, <<SockPath(-2), Undefined>>}

Heap == [nodes |-> nodes, promises |-> promises, procs |-> procs]

----------------------------------------------------------------------------
(* JavaScript promise settlement: only a pending promise changes *)

resolve(h, g) ==
  IF h.promises[g].state = "pending"
  THEN [h EXCEPT !.promises[g].state = "resolved"]
  ELSE h

reject(h, g, e) ==
  IF h.promises[g].state = "pending"
  THEN [h EXCEPT !.promises[g] = [state |-> "rejected", err |-> e]]
  ELSE h

----------------------------------------------------------------------------
(* KTNodeProcess *)

NewKTNodeProcess(h, owner) ==
  [h EXCEPT !.nodes = Append(@, [owner |-> owner, ready |-> NoPromise,
                                 proc |-> NoProc, forkCalls |-> 0,
                                 forkThrew |-> NoError, disposeCalls |-> 0])]

(* a launcher without the guard of line 137 *)
AlreadyStarted_Never(h, n) == FALSE

(* window.ts:137  if (!this.ready) *)
AlreadyStarted(h, n) == h.nodes[n].ready # NoPromise

(* fork(), window.ts:150, gives the child the entries of forkOptions.env  *)
(* whose value is not undefined                                           *)
environ(env) == [k \in {j \in DOMAIN env : env[j] # Undefined} |-> env[k]]

(* a fork that passes the address but adds nothing to the environment *)
fork_InheritOnly(h, n, g, rpcListenPath, ws) ==
  LET child == [node |-> n, gate |-> g,
                args |-> <<"--listenPath", rpcListenPath>>,
                env |-> environ([WORKSPACE_DIR |-> Undefined]),
                killed |-> FALSE, exited |-> FALSE,
                gotReady |-> FALSE, first |-> NoError]
      ps == Append(h.procs, child)
  IN [h EXCEPT !.procs = ps, !.nodes[n].proc = Len(ps)]

(* window.ts:140-150: the child, its launch arguments and the entries    *)
(* start() adds to the inherited environment (execArgv, set in           *)
(* development mode only, is left out)                                   *)
fork(h, n, g, rpcListenPath, ws) ==
  LET child == [node |-> n, gate |-> g,
                args |-> <<"--listenPath", rpcListenPath>>,
                env |-> environ([KTELECTRON |-> "1",
                                 EXTENSION_HOST_ENTRY |-> ExtensionEntry,
                                 WORKSPACE_DIR |-> ws]),
                killed |-> FALSE, exited |-> FALSE,
                gotReady |-> FALSE, first |-> NoError]
      ps == Append(h.procs, child)
  IN [h EXCEPT !.procs = ps, !.nodes[n].proc = Len(ps)]

(* window.ts:135-173.  forkOutcome is "ok" or the error fork() throws.   *)
(* The executor runs synchronously; this.ready is assigned after it.     *)
KTNodeProcessStart(h, n, rpcListenPath, ws, forkOutcome) ==
  IF AlreadyStarted(h, n)
  THEN h
  ELSE LET h1 == [h EXCEPT !.promises = Append(@, [state |-> "pending", err |-> NoError]),
                           !.nodes[n].forkCalls = @ + 1,
                           !.nodes[n].disposeCalls = 0]
           g == Len(h1.promises)
           h2 == IF forkOutcome = "ok"
                 THEN fork(h1, n, g, rpcListenPath, ws)
                 ELSE [reject(h1, g, forkOutcome) EXCEPT !.nodes[n].forkThrew = forkOutcome]
       IN [h2 EXCEPT !.nodes[n].ready = g]

(* bookkeeping: one more call, counted up to 2 *)
Count(k) == IF k < 2 THEN k + 1 ELSE k

(* a kill() that also gives up the start() in progress *)
kill_Rejects(h, p) ==
  IF h.procs[p].exited THEN h
  ELSE reject([h EXCEPT !.procs[p].killed = TRUE], h.procs[p].gate, "killed")

(* ChildProcess.kill() as called at window.ts:181: a signal to a child   *)
(* that has exited is not delivered.                                     *)
kill(h, p) ==
  IF h.procs[p].exited THEN h ELSE [h EXCEPT !.procs[p].killed = TRUE]

(* a dispose() without the guard of line 180 *)
HasProcess_Always(h, n) == TRUE

(* window.ts:180  if (this._process) *)
HasProcess(h, n) == h.nodes[n].proc # NoProc

(* a dispose() that kills only a child that has reported ready *)
KTNodeProcessDispose_OnlyWhenReady(h, n) ==
  IF h.nodes[n].ready # NoPromise /\ h.promises[h.nodes[n].ready].state = "resolved"
  THEN [heap |-> [h EXCEPT !.procs[h.nodes[n].proc].killed = TRUE,
                           !.nodes[n].disposeCalls = Count(@)],
        threw |-> FALSE]
  ELSE [heap |-> [h EXCEPT !.nodes[n].disposeCalls = Count(@)], threw |-> FALSE]

(* window.ts:179-183.  Calling kill on undefined is a TypeError. *)
KTNodeProcessDispose(h, n) ==
  LET h0 == [h EXCEPT !.nodes[n].disposeCalls = Count(@)] IN
  IF HasProcess(h0, n)
  THEN IF h0.nodes[n].proc = NoProc
       THEN [heap |-> h0, threw |-> TRUE]
       ELSE [heap |-> kill(h0, h0.nodes[n].proc), threw |-> FALSE]
  ELSE [heap |-> h0, threw |-> FALSE]

(* a 'message' handler that takes any message for the readiness token *)
IsReadyMessage_Any(m) == TRUE

(* window.ts:153  if (message === 'ready') *)
IsReadyMessage(m) == m = "ready"

(* window.ts:151-156: the 'message' handler of child p *)
OnMessage(h, p, m) ==
  IF IsReadyMessage(m) THEN resolve(h, h.procs[p].gate) ELSE h

(* an 'error' handler that drops the error *)
OnError_Ignore(h, p, e) == h

(* an 'error' handler that overwrites the outcome already stored *)
OnError_Overwrite(h, p, e) ==
  [h EXCEPT !.promises[h.procs[p].gate] = [state |-> "rejected", err |-> e]]

(* window.ts:157-159: the 'error' handler of child p *)
OnError(h, p, e) == reject(h, h.procs[p].gate, e)

(* the readiness state of launcher n, read from its `ready` cell *)
readinessState(h, n) ==
  IF h.nodes[n].ready = NoPromise THEN "Unstarted"
  ELSE CASE h.promises[h.nodes[n].ready].state = "pending" -> "Starting"
         [] h.promises[h.nodes[n].ready].state = "resolved" -> "Ready"
         [] OTHER -> "Failed"

Live(p) == ~procs[p].killed /\ ~procs[p].exited

----------------------------------------------------------------------------
(* CodeWindow *)

(* a clear() without the guard of line 102 *)
HoldsNode_Always(wn, w) == TRUE

(* window.ts:102  if (this.node) *)
HoldsNode(wn, w) == wn[w] # NoNode

(* a clear() that drops the reference without disposing the launcher *)
clear_Forget(h, wn, w) ==
  [heap |-> h, wn |-> [wn EXCEPT ![w] = NoNode], threw |-> FALSE]

(* window.ts:101-107.  Calling dispose on null is a TypeError, and then   *)
(* the assignment of line 105 is not reached.                            *)
clear(h, wn, w) ==
  IF HoldsNode(wn, w)
  THEN IF wn[w] = NoNode
       THEN [heap |-> h, wn |-> wn, threw |-> TRUE]
       ELSE LET d == KTNodeProcessDispose(h, wn[w])
            IN IF d.threw
               THEN [heap |-> d.heap, wn |-> wn, threw |-> TRUE]
               ELSE [heap |-> d.heap, wn |-> [wn EXCEPT ![w] = NoNode], threw |-> FALSE]
  ELSE [heap |-> h, wn |-> wn, threw |-> FALSE]

(* a listen path named after the window instead of a fresh token *)
NewListenPath_PerWindow(w, token) == SockPath(-w)

(* window.ts:73  join(os.tmpdir(), `${uuid()}.sock`), token the uuid drawn *)
NewListenPath(w, token) == SockPath(token)

(* uuid(): the next unused token *)
uuid == uuidCount + 1

(* the record of a call of method `name` that threw or not *)
Threw(name, t) == IF t THEN threw \cup {name} ELSE threw

(* window.ts:79-81: the 'did-finish-load' listener of a start() closes    *)
(* over the rpcListenPath of that call                                    *)
PushListener_TmpDir(s) == SockPath(0)

PushListener(s) == s.addr

(* start() without the try/catch of window.ts:71-85: a rejection of the   *)
(* awaited promise rejects start()                                        *)
Continue_NoCatch(s, br, h) ==
  IF h.promises[s.gate].state = "rejected" \/ br[s.win].closed
  THEN [start |-> [s EXCEPT !.pc = "rejected"], browser |-> br]
  ELSE [start |-> [s EXCEPT !.pc = "returned", !.shown = TRUE],
        browser |-> [br EXCEPT ![s.win].loaded = TRUE,
                               ![s.win].shown = TRUE,
                               ![s.win].pushListeners = Append(@, PushListener(s)),
                               ![s.win].newWindowHandlers = @ + 1]]

(* window.ts:76-85: the rest of start() once the awaited launcher promise *)
(* has settled.  Methods of a destroyed BrowserWindow throw, which the    *)
(* catch of line 83 logs.                                                 *)
Continue(s, br, h) ==
  IF h.promises[s.gate].state = "rejected"
  THEN [start |-> [s EXCEPT !.pc = "returned", !.logged = h.promises[s.gate].err],
        browser |-> br]
  ELSE IF br[s.win].closed
       THEN [start |-> [s EXCEPT !.pc = "returned", !.logged = ObjectDestroyed],
             browser |-> br]
       ELSE [start |-> [s EXCEPT !.pc = "returned", !.shown = TRUE],
             browser |-> [br EXCEPT ![s.win].loaded = TRUE,
                                    ![s.win].shown = TRUE,
                                    ![s.win].pushListeners = Append(@, PushListener(s)),
                                    ![s.win].newWindowHandlers = @ + 1]]

(* a start() that does not wait for the launcher promise *)
Awaiting_NoWait(s, h) == s.pc = "await"

(* window.ts:75: a start() suspended at its await can go on once the      *)
(* launcher promise has settled                                           *)
Awaiting(s, h) == s.pc = "await" /\ h.promises[s.gate].state # "pending"

(* run the continuation of every start() whose awaited promise has settled *)
RECURSIVE ResumeAll(_, _, _, _)
ResumeAll(i, sts, br, h) ==
  IF i > Len(sts) THEN [starts |-> sts, browser |-> br]
  ELSE IF Awaiting(sts[i], h)
       THEN LET c == Continue(sts[i], br, h)
            IN ResumeAll(i + 1, [sts EXCEPT ![i] = c.start], c.browser, h)
       ELSE ResumeAll(i + 1, sts, br, h)

(* a continuation is queued: no event handler runs before it *)
MicrotaskPending == \E i \in DOMAIN starts : Awaiting(starts[i], Heap)


----------------------------------------------------------------------------
(* Initial state: the windows are constructed (window.ts:25-63) *)

InitWindows ==
  /\ winNode = [w \in Windows |-> NoNode]
  /\ metaListener = [w \in Windows |-> TRUE]
  /\ browser = [w \in Windows |->
                  [loaded |-> FALSE, shown |-> FALSE,
                   closed |-> FALSE, pushListeners |-> <<>>,
                   newWindowHandlers |-> 0,
                   loads |-> 0, sent |-> <<>>, newWindow |-> NoEvent]]
  /\ nodes = <<>>
  /\ promises = <<>>
  /\ procs = <<>>
  /\ starts = <<>>
  /\ calls = <<>>
  /\ uuidCount = 0
  /\ nevents = 0
  /\ clearCalls = [w \in Windows |-> 0]
  /\ threw = {}
  /\ disposable = [w \in Windows |-> [disposers |-> 1, removals |-> 0]]
  /\ query = NoQuery

(* extension.ts:21-48: a new Extension; _activated and _enabled have no   *)
(* initializer                                                            *)
NewExtension(isUseEnable) ==
  [isUseEnable |-> isUseEnable,
   activated |-> Undefined, activating |-> NoPromise,
   enabled |-> Undefined, enabling |-> NoPromise,
   promises |-> <<>>, calls |-> <<>>, logged |-> 0]

(* part_000:17-29: a new CompletionAdapter over a provider that has, or   *)
(* has not, a resolveCompletionItem function; the Cache numbers its       *)
(* entries from 1                                                         *)
NewAdapter(supportsResolving) ==
  [supportsResolving |-> supportsResolving,
   idPool |-> 1, cached |-> {}, size |-> <<>>, toDispose |-> {},
   provides |-> <<>>, resolves |-> <<>>]

(* no process id: undefined and 0 are both falsy at part_001:52 *)
NoId == 0

(* part_001:12-40: a new TerminalImpl; _processId has no initializer *)
NewTerminal == [processId |-> NoId, reads |-> <<>>]

(* the values of the setting debug.openDebug *)
OpenDebug == {"neverOpen", "openOnSessionStart", "openOnFirstSessionStart", "openOnDebugBreak"}

(* debug-contribution.ts:103: a new DebugContribution, in the Electron    *)
(* renderer or not, with a value of the preference debug.openDebug        *)
NewDebugContribution(isElectronRenderer, preference) ==
  [isElectronRenderer |-> isElectronRenderer, preference |-> preference,
   firstSessionStart |-> TRUE, onStarts |-> 0, startListeners |-> 0, stopListeners |-> 0,
   sessions |-> <<>>]

InitExtension == extension = NewExtension(TRUE)
InitAdapter == adapter = NewAdapter(TRUE)
InitTerminal == terminal = NewTerminal
InitDebug == debug = NewDebugContribution(FALSE, "openOnFirstSessionStart")

(* the components other than the window bridge, as constructed *)
InitOthers == InitExtension /\ InitAdapter /\ InitTerminal /\ InitDebug

(* windows constructed without a metadata argument *)
Init == InitWindows /\ metadata = [w \in Windows |-> NoExtra] /\ InitOthers

(* windows constructed with any of the metadata arguments Extras *)
InitMeta == InitWindows /\ metadata \in [Windows -> Extras] /\ InitOthers

SetHeap(h) ==
  /\ nodes' = h.nodes
  /\ promises' = h.promises
  /\ procs' = h.procs

----------------------------------------------------------------------------
(* API calls on a CodeWindow *)

(* window.ts:69-75: start() up to its await.  An exception of clear()     *)
(* leaves the async function before the try: start() rejects.            *)
CodeWindowStart(w, forkOutcome) ==
  /\ Len(nodes) < MaxNodes
  /\ LET c == clear(Heap, winNode, w) IN
     IF c.threw
     THEN /\ SetHeap(c.heap)
          /\ winNode' = c.wn
          /\ starts' = Append(starts, [win |-> w, addr |-> SockPath(0), node |-> NoNode,
                                       gate |-> NoPromise, pc |-> "rejected",
                                       logged |-> NoError, shown |-> FALSE])
          /\ UNCHANGED uuidCount
     ELSE LET h1 == NewKTNodeProcess(c.heap, w)
              n == Len(h1.nodes)
              rpcListenPath == NewListenPath(w, uuid)
              h2 == KTNodeProcessStart(h1, n, rpcListenPath, workspace(w), forkOutcome)
          IN /\ SetHeap(h2)
             /\ winNode' = [c.wn EXCEPT ![w] = n]
             /\ uuidCount' = uuidCount + 1
             /\ starts' = Append(starts, [win |-> w, addr |-> rpcListenPath, node |-> n,
                                          gate |-> h2.nodes[n].ready, pc |-> "await",
                                          logged |-> NoError, shown |-> FALSE])
  /\ clearCalls' = [clearCalls EXCEPT ![w] = 0]
  /\ UNCHANGED <<metaListener, ipcVars, otherVars, browser, calls, nevents, threw>>

(* window.ts:83-85: the continuation of a start() whose launcher promise  *)
(* was rejected during the call (fork threw)                              *)
StartCatch(i) ==
  /\ i \in DOMAIN starts
  /\ Awaiting(starts[i], Heap)
  /\ LET c == Continue(starts[i], browser, Heap)
     IN /\ starts' = [starts EXCEPT ![i] = c.start]
        /\ browser' = c.browser
  /\ UNCHANGED <<winNode, metaListener, ipcVars, otherVars, nodes, promises, procs, calls, uuidCount,
                 nevents, clearCalls, threw>>

(* window.ts:101-107 *)
CodeWindowClear(w) ==
  /\ LET c == clear(Heap, winNode, w)
     IN /\ SetHeap(c.heap)
        /\ winNode' = c.wn
        /\ threw' = Threw("CodeWindow.clear", c.threw)
  /\ clearCalls' = [clearCalls EXCEPT ![w] = Count(@)]
  /\ UNCHANGED <<metaListener, ipcVars, otherVars, browser, starts, calls, uuidCount, nevents>>

(* window.ts:57-61: the disposer added in the constructor,               *)
(* ipcMain.removeListener('window-metadata', metadataResponser)           *)
removeListener(ml, dp, w) ==
  [ml |-> [ml EXCEPT ![w] = FALSE], dp |-> [dp EXCEPT ![w].removals = Count(@)]]

(* Disposable.dispose(): runs the disposers added with addDispose() and   *)
(* forgets them, so that each runs once                                   *)
superDispose(ml, dp, w) ==
  IF dp[w].disposers = 0 THEN [ml |-> ml, dp |-> dp]
  ELSE LET r == removeListener(ml, dp, w)
       IN [ml |-> r.ml, dp |-> [r.dp EXCEPT ![w].disposers = 0]]

(* window.ts:115-118 *)
dispose(h, wn, ml, dp, w) ==
  LET c == clear(h, wn, w)
      d == superDispose(ml, dp, w)
  IN IF c.threw
     THEN [heap |-> c.heap, wn |-> c.wn, threw |-> TRUE, ml |-> ml, dp |-> dp]
     ELSE [heap |-> c.heap, wn |-> c.wn, threw |-> FALSE, ml |-> d.ml, dp |-> d.dp]

CodeWindowDispose(w) ==
  /\ LET d == dispose(Heap, winNode, metaListener, disposable, w)
     IN /\ SetHeap(d.heap)
        /\ winNode' = d.wn
        /\ metaListener' = d.ml
        /\ disposable' = d.dp
        /\ threw' = Threw("CodeWindow.dispose", d.threw)
  /\ clearCalls' = [clearCalls EXCEPT ![w] = Count(@)]
  /\ UNCHANGED <<browser, starts, calls, uuidCount, nevents, metadata, query, otherVars>>

(* a 'closed' listener that does not dispose *)
closedListener_Nothing(h, wn, ml, dp, w) ==
  [heap |-> h, wn |-> wn, threw |-> FALSE, ml |-> ml, dp |-> dp]

(* window.ts:40-42: the listener of the native window's 'closed' event *)
closedListener(h, wn, ml, dp, w) == dispose(h, wn, ml, dp, w)

(* window.ts:109-113: close() asks the native window to close, as the    *)
(* user may at any time; no field of the CodeWindow changes.  The window  *)
(* answers with its 'closed' event, OnClosed.                             *)
CodeWindowClose(w) ==
  /\ ~browser[w].closed
  /\ UNCHANGED browser
  /\ UNCHANGED <<winNode, metaListener, ipcVars, otherVars, nodes, promises, procs, starts, calls,
                 uuidCount, nevents, clearCalls, threw>>

(* window.ts:40-42: the native window's 'closed' event *)
OnClosed(w) ==
  /\ ~MicrotaskPending
  /\ ~browser[w].closed
  /\ LET d == closedListener(Heap, winNode, metaListener, disposable, w)
     IN /\ SetHeap(d.heap)
        /\ winNode' = d.wn
        /\ metaListener' = d.ml
        /\ disposable' = d.dp
        /\ threw' = Threw("CodeWindow.dispose", d.threw)
  /\ clearCalls' = [clearCalls EXCEPT ![w] = Count(@)]
  /\ browser' = [browser EXCEPT ![w].closed = TRUE]
  /\ UNCHANGED <<starts, calls, uuidCount, nevents, metadata, query, otherVars>>

----------------------------------------------------------------------------
(* Direct use of the exported class KTNodeProcess (owner NoWindow) *)

CreateNode ==
  /\ Len(nodes) < MaxLaunchers
  /\ SetHeap(NewKTNodeProcess(Heap, NoWindow))
  /\ UNCHANGED <<winNode, metaListener, ipcVars, otherVars, browser, starts, calls, uuidCount, nevents,
                 clearCalls, threw>>

NodeStart(n, args, forkOutcome) ==
  /\ n \in DOMAIN nodes
  /\ nodes[n].owner = NoWindow
  /\ Len(calls) < MaxNodeStarts
  /\ LET h == KTNodeProcessStart(Heap, n, args[1], args[2], forkOutcome)
     IN /\ SetHeap(h)
        /\ calls' = Append(calls, [node |-> n, promise |-> h.nodes[n].ready])
  /\ UNCHANGED <<winNode, metaListener, ipcVars, otherVars, browser, starts, uuidCount, nevents,
                 clearCalls, threw>>

NodeDispose(n) ==
  /\ n \in DOMAIN nodes
  /\ nodes[n].owner = NoWindow
  /\ LET d == KTNodeProcessDispose(Heap, n)
     IN /\ SetHeap(d.heap)
        /\ threw' = Threw("KTNodeProcess.dispose", d.threw)
  /\ UNCHANGED <<winNode, metaListener, ipcVars, otherVars, browser, starts, calls, uuidCount, nevents,
                 clearCalls>>

----------------------------------------------------------------------------
(* Events of a child process, delivered by the event loop *)

Deliver(p, h) ==
  LET r == ResumeAll(1, starts, browser, h)
  IN /\ SetHeap(h)
     /\ starts' = r.starts
     /\ browser' = r.browser
     /\ nevents' = nevents + 1
     /\ UNCHANGED <<winNode, metaListener, ipcVars, otherVars, calls, uuidCount, clearCalls, threw>>

Settles(m) == IF m = "ready" \/ m \in Errors THEN m ELSE NoError

Note(h, p, signal) ==
  [h EXCEPT !.procs[p].gotReady = @ \/ signal = "ready",
            !.procs[p].first = IF @ = NoError THEN Settles(signal) ELSE @]

ChildMessage(p, m) ==
  /\ p \in DOMAIN procs
  /\ ~MicrotaskPending
  /\ ~procs[p].exited
  /\ nevents < MaxEvents
  /\ Deliver(p, OnMessage(Note(Heap, p, m), p, m))

ChildError(p, e) ==
  /\ p \in DOMAIN procs
  /\ ~MicrotaskPending
  /\ ~procs[p].exited
  /\ nevents < MaxEvents
  /\ Deliver(p, OnError(Note(Heap, p, e), p, e))

(* the child exits, by itself or after a kill; window.ts:150-165         *)
(* registers no handler for it                                           *)
ChildExit(p) ==
  /\ p \in DOMAIN procs
  /\ ~MicrotaskPending
  /\ ~procs[p].exited
  /\ procs' = [procs EXCEPT ![p].exited = TRUE]
  /\ UNCHANGED <<winNode, metaListener, ipcVars, otherVars, browser, nodes, promises, starts, calls,
                 uuidCount, nevents, clearCalls, threw>>

----------------------------------------------------------------------------
(* The 'window-metadata' channel of ipcMain *)

(* window.ts:46-51: the computed fields of the response *)
Defaults(w) ==
  [workspace |-> JsValue(workspace(w)),
   webview |-> <<"object", "webviewPreload">> \o FileUri("appConfig.webviewPreload")
               \o <<"plainWebviewPreload">> \o FileUri("appConfig.plainWebviewPreload"),
   extensionDir |-> Str("appConfig.extensionDir")]

(* an object literal that lists the computed fields after ...metadata *)
Spread_First(obj, extra) ==
  [k \in DOMAIN obj \cup DOMAIN extra |-> IF k \in DOMAIN obj THEN obj[k] ELSE extra[k]]

(* window.ts:52: `...metadata` after the computed fields of the literal *)
Spread(obj, extra) ==
  [k \in DOMAIN obj \cup DOMAIN extra |-> IF k \in DOMAIN extra THEN extra[k] ELSE obj[k]]

(* JSON.stringify, window.ts:45: the members whose value is undefined are *)
(* left out of the text                                                   *)
stringify(obj) == [k \in {j \in DOMAIN obj : obj[j] # JsUndefined} |-> obj[k]]

(* a responder that answers every query *)
IsForWindow_Any(w, windowId) == TRUE

(* window.ts:44: windowId === this.browser.id *)
IsForWindow(w, windowId) == windowId = w

(* window.ts:43-55 *)
metadataResponser(w, md, ev) ==
  IF IsForWindow(w, ev.windowId)
  THEN [ev EXCEPT !.returnValue = <<stringify(Spread(Defaults(w), md[w]))>>,
                  !.answeredBy = @ \cup {w}]
  ELSE ev

(* the listeners registered at window.ts:56 run in registration order *)
RECURSIVE EmitWindowMetadata(_, _, _, _)
EmitWindowMetadata(w, ml, md, ev) ==
  IF w \notin Windows THEN ev
  ELSE EmitWindowMetadata(w + 1, ml, md,
                          IF ml[w] THEN metadataResponser(w, md, ev) ELSE ev)

(* a content asks with ipcRenderer.sendSync('window-metadata', windowId) *)
MetadataQuery(windowId) ==
  /\ ~MicrotaskPending
  /\ query' = EmitWindowMetadata(1, metaListener, metadata,
                                 [windowId |-> windowId, returnValue |-> <<>>,
                                  answeredBy |-> {}])
  /\ UNCHANGED <<winNode, metaListener, browser, nodes, promises, procs, starts,
                 calls, uuidCount, nevents, clearCalls, threw, metadata, disposable, otherVars>>

----------------------------------------------------------------------------
(* Events of a window's content (browser.webContents) *)

(* webContents.send('preload:listenPath', rpcListenPath), window.ts:80,   *)
(* on the k-th 'did-finish-load' of the content                           *)
send(sent, k, rpcListenPath) == Append(sent, [load |-> k, addr |-> rpcListenPath])

(* every listener registered at window.ts:79 runs, in registration order  *)
RECURSIVE EmitDidFinishLoad(_, _, _, _)
EmitDidFinishLoad(i, listeners, k, sent) ==
  IF i > Len(listeners) THEN sent
  ELSE EmitDidFinishLoad(i + 1, listeners, k, send(sent, k, listeners[i]))

TotalLoads == browser[1].loads + browser[2].loads

(* the content loaded by window.ts:77 finishes loading, the first time or *)
(* after a reload                                                         *)
DidFinishLoad(w) ==
  /\ ~MicrotaskPending
  /\ browser[w].loaded
  /\ ~browser[w].closed
  /\ TotalLoads < MaxLoads
  /\ browser' = [browser EXCEPT
                   ![w].loads = @ + 1,
                   ![w].sent = EmitDidFinishLoad(1, browser[w].pushListeners,
                                                 browser[w].loads + 1, @)]
  /\ UNCHANGED <<winNode, metaListener, ipcVars, otherVars, nodes, promises, procs, starts, calls,
                 uuidCount, nevents, clearCalls, threw>>

(* url.indexOf('http') === 0, window.ts:94 *)
StartsWithHttp_Never(url) == FALSE

StartsWithHttp(url) == Len(url) >= 4 /\ SubSeq(url, 1, 4) = <<"h", "t", "t", "p">>

(* a 'new-window' listener without the test of window.ts:92 *)
newWindowHandler_NoGuard(ev) ==
  [ev EXCEPT !.defaultPrevented = TRUE,
             !.opened = IF StartsWithHttp(ev.url) THEN @ + 1 ELSE @]

(* window.ts:90-98: one 'new-window' listener; `opened` counts the calls  *)
(* of shell.openExternal(url)                                             *)
newWindowHandler(ev) ==
  IF ~ev.defaultPrevented
  THEN [ev EXCEPT !.defaultPrevented = TRUE,
                  !.opened = IF StartsWithHttp(ev.url) THEN @ + 1 ELSE @]
  ELSE ev

(* every listener registered by bindEvents() (window.ts:82) runs *)
RECURSIVE EmitNewWindow(_, _)
EmitNewWindow(k, ev) ==
  IF k = 0 THEN ev ELSE EmitNewWindow(k - 1, newWindowHandler(ev))

(* the content asks for a new window for url (a link, window.open); the   *)
(* window opens it itself unless a listener prevented the default         *)
NewWindowEvent(w, url) ==
  /\ ~MicrotaskPending
  /\ browser[w].loaded
  /\ ~browser[w].closed
  /\ browser' = [browser EXCEPT
                   ![w].newWindow =
                      EmitNewWindow(browser[w].newWindowHandlers,
                                    [url |-> url, defaultPrevented |-> FALSE,
                                     opened |-> 0])]
  /\ UNCHANGED <<winNode, metaListener, ipcVars, otherVars, nodes, promises, procs, starts, calls,
                 uuidCount, nevents, clearCalls, threw>>

----------------------------------------------------------------------------

(* The windows of the application and the children of their launchers *)
Next ==
  \/ \E w \in Windows, fo \in ForkOutcomes : CodeWindowStart(w, fo)
  \/ \E i \in 1..MaxNodes : StartCatch(i)
  \/ \E w \in Windows : CodeWindowClear(w)
  \/ \E w \in Windows : CodeWindowDispose(w)
  \/ \E w \in Windows : CodeWindowClose(w)
  \/ \E w \in Windows : OnClosed(w)
  \/ \E p \in 1..MaxNodes, m \in Messages : ChildMessage(p, m)
  \/ \E p \in 1..MaxNodes, e \in Errors : ChildError(p, e)

Spec == Init /\ [][Next]_vars

(* One window, the children of its launchers and the events of its content *)
NextUI ==
  \/ \E w \in UIWindows, fo \in ForkOutcomes : CodeWindowStart(w, fo)
  \/ \E i \in 1..MaxNodes : StartCatch(i)
  \/ \E w \in UIWindows : CodeWindowClear(w)
  \/ \E w \in UIWindows : CodeWindowDispose(w)
  \/ \E w \in UIWindows : CodeWindowClose(w)
  \/ \E w \in UIWindows : OnClosed(w)
  \/ \E p \in 1..MaxNodes, m \in Messages : ChildMessage(p, m)
  \/ \E p \in 1..MaxNodes, e \in Errors : ChildError(p, e)
  \/ \E w \in UIWindows : DidFinishLoad(w)
  \/ \E w \in UIWindows, url \in Urls : NewWindowEvent(w, url)

SpecUI == Init /\ [][NextUI]_vars

(* The 'window-metadata' channel: windows constructed with any metadata,  *)
(* their disposal and the queries                                         *)
NextMeta ==
  \/ \E w \in Windows : CodeWindowDispose(w)
  \/ \E w \in Windows : CodeWindowClose(w)
  \/ \E w \in Windows : OnClosed(w)
  \/ \E id \in QueryIds : MetadataQuery(id)

SpecMeta == InitMeta /\ [][NextMeta]_vars

(* The life of the windows, from start() to 'closed', and the queries on  *)
(* the channel; the children stay silent                                  *)
NextLife ==
  \/ \E w \in Windows, fo \in ForkOutcomes : CodeWindowStart(w, fo)
  \/ \E i \in 1..MaxNodes : StartCatch(i)
  \/ \E w \in Windows : CodeWindowClear(w)
  \/ NextMeta

SpecLife == Init /\ [][NextLife]_vars

(* the settling signals of a child: 'ready' or an error *)
Signals == {"ready"} \cup Errors

(* child p delivers the signal that settles the start() in progress:     *)
(* the 'message' handler (window.ts:151-156) or the 'error' handler       *)
(* (window.ts:157-159) runs                                               *)
ChildSignals(p, signal) ==
  /\ p \in DOMAIN procs
  /\ ~MicrotaskPending
  /\ ~procs[p].exited
  /\ promises[procs[p].gate].state = "pending"
  /\ Deliver(p, IF signal = "ready"
                THEN OnMessage(Note(Heap, p, signal), p, signal)
                ELSE OnError(Note(Heap, p, signal), p, signal))

(* a child that was not killed signals *)
LiveChildSignals(p) ==
  /\ p \in DOMAIN procs
  /\ ~procs[p].killed
  /\ \E signal \in Signals : ChildSignals(p, signal)

(* One window whose children each signal once; a child that was not       *)
(* killed does signal, and a queued continuation does run                 *)
NextFair ==
  \/ \E w \in UIWindows, fo \in ForkOutcomes : CodeWindowStart(w, fo)
  \/ \E i \in 1..MaxNodes : StartCatch(i)
  \/ \E w \in UIWindows : CodeWindowClear(w)
  \/ \E w \in UIWindows : CodeWindowDispose(w)
  \/ \E w \in UIWindows : CodeWindowClose(w)
  \/ \E w \in UIWindows : OnClosed(w)
  \/ \E p \in 1..MaxNodes, signal \in Signals : ChildSignals(p, signal)

SpecFair ==
  /\ Init
  /\ [][NextFair]_vars
  /\ \A p \in 1..MaxNodes : WF_vars(LiveChildSignals(p))
  /\ \A i \in 1..MaxNodes : WF_vars(StartCatch(i))

(* Launchers used directly, without a window, and their children *)
NextNode ==
  \/ CreateNode
  \/ \E n \in 1..MaxLaunchers, args \in CallerArgs, fo \in ForkOutcomes :
        NodeStart(n, args, fo)
  \/ \E n \in 1..MaxLaunchers : NodeDispose(n)
  \/ \E p \in 1..MaxNodeStarts, m \in Messages : ChildMessage(p, m)
  \/ \E p \in 1..MaxNodeStarts, e \in Errors : ChildError(p, e)
  \/ \E p \in 1..MaxNodeStarts : ChildExit(p)

SpecNode == Init /\ [][NextNode]_vars

----------------------------------------------------------------------------
(* Extension (packages/kaitian-extension/src/browser/extension.ts).       *)
(* extension.promises holds the promises of the object: those returned by *)
(* extensionService.activeExtension and vscodeMetaService.run, both       *)
(* asynchronous, and the one made by .then().catch() at lines 96-100.     *)
(* extension.calls holds the activate()/enable() invocations with the     *)
(* promise each follows and the state of the promise it returned.         *)

Outcomes == {"resolved", "rejected"}

(* a promise of kind `of`, derived from promise `from` (or from none) *)
NewPromise(e, of, from) ==
  [e EXCEPT !.promises = Append(@, [of |-> of, state |-> "pending", from |-> from])]

(* an invocation that returns a promise following promise g, or one       *)
(* already resolved when g is NoPromise                                   *)
Returns(e, method, g) ==
  [e EXCEPT !.calls = Append(@, [method |-> method, follows |-> g,
                                 result |-> IF g = NoPromise THEN "resolved"
                                            ELSE e.promises[g].state])]

(* the invocations following promise g see it settle *)
SettleCalls(e, g) ==
  [e EXCEPT !.calls = [i \in DOMAIN e.calls |->
                         IF e.calls[i].follows = g
                         THEN [e.calls[i] EXCEPT !.result = e.promises[g].state]
                         ELSE e.calls[i]]]

(* an activate() without the test of extension.ts:92 *)
IsActivating_Never(e) == FALSE

(* extension.ts:92  if (this._activating) *)
IsActivating(e) == e.activating # NoPromise

(* extension.ts:87-103 *)
activate(e) ==
  IF e.activated = "true" THEN Returns(e, "activate", NoPromise)
  ELSE IF IsActivating(e) THEN Returns(e, "activate", e.activating)
  ELSE LET e1 == NewPromise(e, "activeExtension", NoPromise)
           e2 == NewPromise(e1, "activating", Len(e1.promises))
           d == Len(e2.promises)
       IN Returns([e2 EXCEPT !.activating = d], "activate", d)

(* extension.ts:96-100: the .then().catch() chain once the promise s of   *)
(* activeExtension has settled; the promise d it made resolves in both    *)
(* cases                                                                  *)
thenCatch(e, s, d) ==
  IF e.promises[s].state = "resolved"
  THEN [e EXCEPT !.activated = "true", !.promises[d].state = "resolved"]
  ELSE [e EXCEPT !.logged = @ + 1, !.promises[d].state = "resolved"]

(* the promises of kind `of` that are pending *)
Pending(e, of) ==
  {g \in DOMAIN e.promises : e.promises[g].of = of /\ e.promises[g].state = "pending"}

(* the promise derived from promise s *)
DerivedFrom(e, s) == CHOOSE d \in DOMAIN e.promises : e.promises[d].from = s

(* an enable() without the test of extension.ts:73 *)
IsEnabling_Never(e) == FALSE

(* extension.ts:73  if (this._enabling) *)
IsEnabling(e) == e.enabling # NoPromise

(* extension.ts:62-81: enable() up to its await *)
enable(e) ==
  IF ~e.isUseEnable THEN Returns(e, "enable", NoPromise)
  ELSE IF e.enabled = "true" THEN Returns(e, "enable", NoPromise)
  ELSE IF IsEnabling(e) THEN Returns(e, "enable", e.enabling)
  ELSE LET e1 == NewPromise(e, "run", NoPromise)
           r == Len(e1.promises)
       IN Returns([e1 EXCEPT !.enabling = r], "enable", r)

(* extension.ts:81-85: the rest of the enable() that awaits run promise   *)
(* r; a rejection leaves the function at the await                        *)
enableContinue(e, r) ==
  IF e.promises[r].state = "resolved"
  THEN [e EXCEPT !.enabled = "true", !.enabling = NoPromise]
  ELSE e

ExtensionActivate ==
  /\ Len(extension.calls) < MaxCalls
  /\ extension' = activate(extension)
  /\ UNCHANGED <<windowVars, adapter, terminal, debug>>

ExtensionEnable ==
  /\ Len(extension.calls) < MaxCalls
  /\ extension' = enable(extension)
  /\ UNCHANGED <<windowVars, adapter, terminal, debug>>

(* the promise of an extensionService.activeExtension call settles *)
ActiveExtensionSettles(s, outcome) ==
  /\ s \in Pending(extension, "activeExtension")
  /\ LET d == DerivedFrom(extension, s)
         e1 == [extension EXCEPT !.promises[s].state = outcome]
     IN extension' = SettleCalls(thenCatch(e1, s, d), d)
  /\ UNCHANGED <<windowVars, adapter, terminal, debug>>

(* the promise of a vscodeMetaService.run call settles *)
RunSettles(r, outcome) ==
  /\ r \in Pending(extension, "run")
  /\ LET e1 == [extension EXCEPT !.promises[r].state = outcome]
     IN extension' = SettleCalls(enableContinue(e1, r), r)
  /\ UNCHANGED <<windowVars, adapter, terminal, debug>>

(* extension.ts:58-60: the setter of `enabled` *)
SetEnabled(value) ==
  /\ extension' = [extension EXCEPT !.enabled = IF value THEN "true" ELSE "false"]
  /\ UNCHANGED <<windowVars, adapter, terminal, debug>>

(* an Extension made with either value of isUseEnable *)
InitExt ==
  /\ InitWindows
  /\ metadata = [w \in Windows |-> NoExtra]
  /\ extension \in {NewExtension(b) : b \in BOOLEAN}
  /\ InitAdapter /\ InitTerminal /\ InitDebug

NextExt ==
  \/ ExtensionActivate
  \/ ExtensionEnable
  \/ \E s \in 1..(2 * MaxCalls), o \in Outcomes : ActiveExtensionSettles(s, o)
  \/ \E r \in 1..(2 * MaxCalls), o \in Outcomes : RunSettles(r, o)
  \/ \E b \in BOOLEAN : SetEnabled(b)

SpecExt == InitExt /\ [][NextExt]_vars

----------------------------------------------------------------------------
(* CompletionAdapter (unnamed/part_000). adapter.cached and adapter.size  *)
(* are the Cache of line 18 (the ids it holds and the length of each      *)
(* entry), adapter.toDispose the keys of the Map of line 19.              *)
(* adapter.provides and adapter.resolves are the calls made, each with    *)
(* the state of the promise it returned.                                  *)

(* the result ids and item indices a caller may pass *)
ResultIds == 1..(MaxProvides + 1)
ItemIndices == 0..MaxItems

(* what delegate.provideCompletionItems yields: nothing, or a list of n items *)
NoList == [some |-> FALSE, n |-> 0]
Lists == {NoList} \cup {[some |-> TRUE, n |-> n] : n \in 0..MaxItems}

(* part_000:122-131: convertCompletionItem, up to the check of the store; *)
(* "missing" is the throw of line 130                                     *)
convertCompletionItem(a, id) ==
  IF id[1] \in a.toDispose THEN "item" ELSE "missing"

(* part_000:63, Cache.add: the entry takes the next id *)
cacheAdd(a, n) ==
  [a EXCEPT !.idPool = @ + 1, !.cached = @ \cup {a.idPool}, !.size = Append(@, n)]

(* part_000:93, Cache.get(pid, index): is there an item *)
cacheGet(a, id) == id[1] \in a.cached /\ id[2] < a.size[id[1]]

(* part_000:37-55: provideCompletionItems up to its await *)
provideCompletionItems(a, hasDocument) ==
  [a EXCEPT !.provides = Append(@, [state |-> IF hasDocument THEN "pending" ELSE "rejected",
                                    x |-> 0])]

(* part_000:56-82: provideCompletionItems after its await, the delegate   *)
(* having yielded `list`                                                  *)
provideContinue(a, k, list) ==
  IF ~list.some THEN [a EXCEPT !.provides[k].state = "undefined"]
  ELSE LET pid == a.idPool
           a1 == cacheAdd(a, IF a.supportsResolving THEN list.n ELSE 0)
           a2 == [a1 EXCEPT !.toDispose = @ \cup {pid}]
           dtos == {convertCompletionItem(a2, <<pid, i>>) : i \in 0..(list.n - 1)}
       IN [a2 EXCEPT !.provides[k] = [state |-> IF "missing" \in dtos THEN "missing"
                                                ELSE "result",
                                      x |-> pid]]

(* part_000:100-109: the .then callback of resolveCompletionItem *)
resolveThen(a, id, resolvedItem) ==
  IF resolvedItem THEN convertCompletionItem(a, id) ELSE "undefined"

(* part_000:85-110: resolveCompletionItem; the delegate answers at once   *)
(* with an item or with nothing, or with a promise ("later")              *)
resolveCompletionItem(a, id, answer) ==
  [a EXCEPT !.resolves = Append(@,
     [id |-> id,
      state |-> IF ~a.supportsResolving THEN "undefined"
                ELSE IF ~cacheGet(a, id) THEN "undefined"
                ELSE IF answer = "later" THEN "pending"
                ELSE resolveThen(a, id, answer = "item")])]

(* part_000:112-120 *)
releaseCompletionItems(a, pid) ==
  [a EXCEPT !.cached = @ \ {pid}, !.toDispose = @ \ {pid}]

AdapterProvide(hasDocument) ==
  /\ Len(adapter.provides) < MaxProvides
  /\ adapter' = provideCompletionItems(adapter, hasDocument)
  /\ UNCHANGED <<windowVars, extension, terminal, debug>>

(* the delegate's provideCompletionItems yields *)
ProvideReturns(k, list) ==
  /\ k \in DOMAIN adapter.provides
  /\ adapter.provides[k].state = "pending"
  /\ adapter' = provideContinue(adapter, k, list)
  /\ UNCHANGED <<windowVars, extension, terminal, debug>>

(* the delegate's provideCompletionItems fails *)
ProvideFails(k) ==
  /\ k \in DOMAIN adapter.provides
  /\ adapter.provides[k].state = "pending"
  /\ adapter' = [adapter EXCEPT !.provides[k].state = "rejected"]
  /\ UNCHANGED <<windowVars, extension, terminal, debug>>

AdapterResolve(id, answer) ==
  /\ Len(adapter.resolves) < MaxResolves
  /\ adapter' = resolveCompletionItem(adapter, id, answer)
  /\ UNCHANGED <<windowVars, extension, terminal, debug>>

(* the promise the delegate's resolveCompletionItem gave settles *)
ResolveReturns(k, outcome) ==
  /\ k \in DOMAIN adapter.resolves
  /\ adapter.resolves[k].state = "pending"
  /\ adapter' = [adapter EXCEPT !.resolves[k].state =
                   IF outcome = "rejected" THEN "rejected"
                   ELSE resolveThen(adapter, adapter.resolves[k].id, outcome = "item")]
  /\ UNCHANGED <<windowVars, extension, terminal, debug>>

AdapterRelease(pid) ==
  /\ adapter' = releaseCompletionItems(adapter, pid)
  /\ UNCHANGED <<windowVars, extension, terminal, debug>>

(* an adapter over a provider with or without resolveCompletionItem *)
InitCompletion ==
  /\ InitWindows
  /\ metadata = [w \in Windows |-> NoExtra]
  /\ adapter \in {NewAdapter(b) : b \in BOOLEAN}
  /\ InitExtension /\ InitTerminal /\ InitDebug

NextCompletion ==
  \/ \E d \in BOOLEAN : AdapterProvide(d)
  \/ \E k \in 1..MaxProvides, list \in Lists : ProvideReturns(k, list)
  \/ \E k \in 1..MaxProvides : ProvideFails(k)
  \/ \E pid \in ResultIds, i \in ItemIndices, answer \in {"later", "item", "none"} :
       AdapterResolve(<<pid, i>>, answer)
  \/ \E k \in 1..MaxResolves, o \in {"item", "none", "rejected"} : ResolveReturns(k, o)
  \/ \E pid \in ResultIds : AdapterRelease(pid)

SpecCompletion == InitCompletion /\ [][NextCompletion]_vars

----------------------------------------------------------------------------
(* TerminalImpl (unnamed/part_001). terminal.processId is the field       *)
(* _processId, terminal.reads the evaluations of the getter processId:    *)
(* each has thrown, or returned a promise that is pending on the terminal *)
(* service, resolved with a value, or left unsettled for good ("hung").   *)

(* the ids setProcessId is called with and the terminal service returns;  *)
(* NoId from the service is "none"                                        *)
ProcessIds == {NoId, 1, 2}

(* part_001:56  <value> || -1 *)
OrMinusOne(v) == IF v # NoId THEN v ELSE -1

RECURSIVE processId(_, _)
(* part_001:51-54: the getter processId, evaluated with `depth` frames on *)
(* the stack. Line 53 reads this.processId, the getter itself, so a       *)
(* truthy _processId re-enters it until the stack is exhausted and a      *)
(* RangeError is thrown; otherwise the promise of line 55 is made.        *)
processId(t, depth) ==
  IF depth > MaxStack THEN "RangeError"
  ELSE IF t.processId # NoId THEN processId(t, depth + 1)
  ELSE "promise"

(* part_001:51-56: a read of processId, up to the await of the executor *)
readProcessId(t) ==
  IF processId(t, 1) = "RangeError"
  THEN [t EXCEPT !.reads = Append(@, [state |-> "threw", asked |-> FALSE, value |-> NoId])]
  ELSE [t EXCEPT !.reads = Append(@, [state |-> "pending", asked |-> TRUE, value |-> NoId])]

(* part_001:56-57: the executor after its await, the service having       *)
(* returned v: resolve(this.processId) evaluates the getter again; when   *)
(* that throws, the async executor rejects and resolve is never called    *)
executorContinue(t, k, v) ==
  LET t1 == [t EXCEPT !.processId = OrMinusOne(v)]
  IN IF processId(t1, 1) = "RangeError"
     THEN [t1 EXCEPT !.reads[k].state = "hung"]
     ELSE [t1 EXCEPT !.reads[k].state = "resolved", !.reads[k].value = t1.processId]

(* part_001:65-67 *)
setProcessId(t, id) == [t EXCEPT !.processId = id]

TerminalSetProcessId(id) ==
  /\ terminal' = setProcessId(terminal, id)
  /\ UNCHANGED <<windowVars, extension, adapter, debug>>

TerminalReadProcessId ==
  /\ Len(terminal.reads) < MaxReads
  /\ terminal' = readProcessId(terminal)
  /\ UNCHANGED <<windowVars, extension, adapter, debug>>

(* terminalService.getProcessId answers the read k *)
GetProcessIdReturns(k, v) ==
  /\ k \in DOMAIN terminal.reads
  /\ terminal.reads[k].state = "pending"
  /\ terminal' = executorContinue(terminal, k, v)
  /\ UNCHANGED <<windowVars, extension, adapter, debug>>

(* terminalService.getProcessId fails: the executor rejects at its await *)
GetProcessIdFails(k) ==
  /\ k \in DOMAIN terminal.reads
  /\ terminal.reads[k].state = "pending"
  /\ terminal' = [terminal EXCEPT !.reads[k].state = "hung"]
  /\ UNCHANGED <<windowVars, extension, adapter, debug>>

NextTerminal ==
  \/ \E id \in ProcessIds : TerminalSetProcessId(id)
  \/ TerminalReadProcessId
  \/ \E k \in 1..MaxReads, v \in ProcessIds : GetProcessIdReturns(k, v)
  \/ \E k \in 1..MaxReads : GetProcessIdFails(k)

SpecTerminal == Init /\ [][NextTerminal]_vars

----------------------------------------------------------------------------
(* DebugContribution (packages/debug/src/browser/debug-contribution.ts).  *)
(* debug.startListeners and debug.stopListeners count the listeners that  *)
(* onStart() has registered on the session manager; debug.sessions holds  *)
(* the sessions started, each with its configuration, what was registered *)
(* when it started and the openView() calls made for it.                  *)

(* session.configuration.openDebug: absent, or one of the values *)
ConfiguredOpenDebug == {Undefined} \cup OpenDebug

(* the values of the preference the contributions are made with *)
Preferences == {"neverOpen", "openOnFirstSessionStart"}

(* debug-contribution.ts:152  configuration.openDebug || preferences[...] *)
EffectiveOpenDebug(configured, preference) ==
  IF configured # Undefined THEN configured ELSE preference

(* a test that lets every session of 'openOnFirstSessionStart' open *)
ShouldOpen_EveryStart(noDebug, openDebug, first) ==
  ~noDebug /\ openDebug \in {"openOnSessionStart", "openOnFirstSessionStart"}

(* debug-contribution.ts:153 *)
ShouldOpen(noDebug, openDebug, first) ==
  ~noDebug /\ (openDebug = "openOnSessionStart"
               \/ (openDebug = "openOnFirstSessionStart" /\ first))

(* debug-contribution.ts:145-170: onStart registers its listeners unless  *)
(* in the Electron renderer                                               *)
onStart(d) ==
  IF ~d.isElectronRenderer
  THEN [d EXCEPT !.onStarts = @ + 1, !.startListeners = @ + 1, !.stopListeners = @ + 1]
  ELSE [d EXCEPT !.onStarts = @ + 1]

(* debug-contribution.ts:150-158: the openView() calls of the n listeners *)
(* of onDidStartDebugSession run one after the other; the first sees      *)
(* firstSessionStart as it is, the others see it false                    *)
startOpens(n, noDebug, openDebug, first) ==
  IF n = 0 THEN 0
  ELSE (IF ShouldOpen(noDebug, openDebug, first) THEN 1 ELSE 0)
       + (IF ShouldOpen(noDebug, openDebug, FALSE) THEN n - 1 ELSE 0)

(* the session manager fires onDidStartDebugSession *)
didStartDebugSession(d, noDebug, configured) ==
  LET openDebug == EffectiveOpenDebug(configured, d.preference)
      n == d.startListeners
  IN [d EXCEPT !.firstSessionStart = IF n > 0 THEN FALSE ELSE @,
               !.sessions = Append(@,
                  [noDebug |-> noDebug, configured |-> configured, openDebug |-> openDebug,
                   afterOnStart |-> d.onStarts > 0, listeners |-> n,
                   opened |-> startOpens(n, noDebug, openDebug, d.firstSessionStart),
                   stopped |-> FALSE, openedOnStop |-> 0])]

(* debug-contribution.ts:159-164: the session manager fires               *)
(* onDidStopDebugSession for session k                                    *)
didStopDebugSession(d, k) ==
  [d EXCEPT !.sessions[k].stopped = TRUE,
            !.sessions[k].openedOnStop =
               IF d.sessions[k].configured = "openOnDebugBreak" THEN d.stopListeners ELSE 0]

DebugOnStart ==
  /\ debug.onStarts < MaxOnStarts
  /\ debug' = onStart(debug)
  /\ UNCHANGED <<windowVars, extension, adapter, terminal>>

DebugSessionStarts(noDebug, configured) ==
  /\ Len(debug.sessions) < MaxSessions
  /\ debug' = didStartDebugSession(debug, noDebug, configured)
  /\ UNCHANGED <<windowVars, extension, adapter, terminal>>

DebugSessionStops(k) ==
  /\ k \in DOMAIN debug.sessions
  /\ ~debug.sessions[k].stopped
  /\ debug' = didStopDebugSession(debug, k)
  /\ UNCHANGED <<windowVars, extension, adapter, terminal>>

(* a contribution in either kind of runtime, with either preference *)
InitDebugContribution ==
  /\ InitWindows
  /\ metadata = [w \in Windows |-> NoExtra]
  /\ debug \in {NewDebugContribution(e, pr) : e \in BOOLEAN, pr \in Preferences}
  /\ InitExtension /\ InitAdapter /\ InitTerminal

NextDebug ==
  \/ DebugOnStart
  \/ \E noDebug \in BOOLEAN, configured \in ConfiguredOpenDebug :
       DebugSessionStarts(noDebug, configured)
  \/ \E k \in 1..MaxSessions : DebugSessionStops(k)

SpecDebug == InitDebugContribution /\ [][NextDebug]_vars

----------------------------------------------------------------------------
(* Properties *)

ProcsOf(w) == {p \in DOMAIN procs : nodes[procs[p].node].owner = w}
CallsOn(n) == {i \in DOMAIN calls : calls[i].node = n}
StartsOf(w) == {i \in DOMAIN starts : starts[i].win = w}

(* C1: a CodeWindow never has two extension host processes that were      *)
(* forked and not yet killed, and such a process is the one of the        *)
(* launcher the window holds: start() kills the old one before forking.   *)
C1_AtMostOneLiveProcess ==
  \A w \in Windows :
    /\ Cardinality({p \in ProcsOf(w) : ~procs[p].killed}) <= 1
    /\ \A p \in ProcsOf(w) : ~procs[p].killed => procs[p].node = winNode[w]

(* a window restarted: its first child killed, its second one running *)
C1_Witness ==
  \E w \in Windows : \E p, q \in ProcsOf(w) :
    p < q /\ procs[p].killed /\ ~procs[q].killed /\ winNode[w] = procs[q].node

(* C2: on one KTNodeProcess, fork() is called at most once, every call of *)
(* start() returns the promise stored in `ready`, so all callers see the  *)
(* same outcome, and no second promise is made.                           *)
C2_StartIdempotent ==
  \A n \in DOMAIN nodes :
    /\ nodes[n].forkCalls <= 1
    /\ Cardinality({p \in DOMAIN procs : procs[p].node = n}) <= 1
    /\ \A i \in CallsOn(n) : calls[i].promise = nodes[n].ready
    /\ \A i, j \in CallsOn(n) : promises[calls[i].promise] = promises[calls[j].promise]
    /\ (CallsOn(n) # {} => Len(promises) <= Len(nodes))

(* three calls on one launcher, whose promise has been rejected *)
C2_Witness ==
  \E n \in DOMAIN nodes :
    /\ Cardinality(CallsOn(n)) >= 3
    /\ promises[nodes[n].ready].state = "rejected"

(* C3: a launcher's promise is resolved only if its child has delivered   *)
(* the message 'ready'.                                                   *)
C3_ResolvedOnlyOnReady ==
  \A g \in DOMAIN promises :
    promises[g].state = "resolved" =>
      \E p \in DOMAIN procs : procs[p].gate = g /\ procs[p].gotReady

(* a child whose only event so far is the message 'ready' *)
C3_Witness ==
  \E p \in DOMAIN procs :
    /\ Len(procs) = 1 /\ nevents = 1
    /\ procs[p].gotReady
    /\ promises[procs[p].gate].state = "resolved"

(* C4: when the first signal of a child is an error, or fork() threw, the *)
(* launcher's promise is rejected with that error, and stays so.          *)
C4_ErrorRejects ==
  /\ \A p \in DOMAIN procs :
       procs[p].first \in Errors =>
         promises[procs[p].gate] = [state |-> "rejected", err |-> procs[p].first]
  /\ \A n \in DOMAIN nodes :
       nodes[n].forkThrew # NoError =>
         /\ promises[nodes[n].ready] = [state |-> "rejected", err |-> nodes[n].forkThrew]
         /\ readinessState(Heap, n) = "Failed"

(* a child raised an error and later sent 'ready' *)
C4_Witness ==
  \E p \in DOMAIN procs :
    /\ procs[p].first \in Errors
    /\ procs[p].gotReady
    /\ readinessState(Heap, procs[p].node) = "Failed"

(* C5: a child that exited without having sent 'ready' (and was not       *)
(* killed by the host) has its launcher's promise rejected.               *)
C5_CrashRejects ==
  \A p \in DOMAIN procs :
    (procs[p].exited /\ ~procs[p].killed /\ ~procs[p].gotReady) =>
      promises[procs[p].gate].state = "rejected"

(* C6: the readiness state of a launcher only moves forward: from         *)
(* Unstarted to Starting (or, when fork() throws, on to Failed within the *)
(* same call), from Starting to Ready or Failed, and never out of Ready   *)
(* or Failed; the error of a Failed launcher never changes.               *)
C6_ReadinessMonotonic ==
  [][\A n \in DOMAIN nodes :
       LET before == readinessState(Heap, n)
           after == readinessState(Heap, n)'
       IN /\ before = "Unstarted" => after \in {"Unstarted", "Starting", "Failed"}
          /\ before = "Starting" => after \in {"Starting", "Ready", "Failed"}
          /\ before \in {"Ready", "Failed"} =>
               /\ after = before
               /\ nodes'[n].ready = nodes[n].ready
               /\ promises'[nodes[n].ready] = promises[nodes[n].ready]]_vars

(* a launcher is Ready and its child has delivered a further event since *)
C6_Witness ==
  \E p \in DOMAIN procs :
    /\ Len(procs) = 1 /\ nevents = 2
    /\ procs[p].first = "ready"
    /\ readinessState(Heap, procs[p].node) = "Ready"
    /\ promises[procs[p].gate].err = NoError

(* C7: dispose() never throws, and after a window's dispose() (or         *)
(* clear()), until its next start(), none of its children is left         *)
(* unkilled, also when the start() that forked the child is still         *)
(* awaiting readiness.                                                    *)
C7_DisposeDuringStart ==
  /\ "CodeWindow.dispose" \notin threw
  /\ \A w \in Windows :
       clearCalls[w] >= 1 => \A p \in ProcsOf(w) : procs[p].killed

(* a window disposed while its start() awaits the child it forked *)
C7_Witness ==
  \E w \in Windows : \E i \in StartsOf(w) :
    /\ ~metaListener[w]
    /\ clearCalls[w] >= 1
    /\ starts[i].pc = "await"
    /\ nodes[starts[i].node].proc # NoProc
    /\ procs[nodes[starts[i].node].proc].killed

(* C8: KTNodeProcess.dispose() never throws; after it, until the next     *)
(* start(), the launcher's child is not live; and a repeated dispose()    *)
(* changes nothing.                                                       *)
C8_DisposeRepeatable ==
  /\ [](/\ "KTNodeProcess.dispose" \notin threw
        /\ \A n \in DOMAIN nodes :
             (nodes[n].disposeCalls >= 1 /\ nodes[n].proc # NoProc) =>
                ~Live(nodes[n].proc))
  /\ [][\A n \in DOMAIN nodes :
          (nodes[n].disposeCalls = 1 /\ nodes'[n].disposeCalls = 2) =>
             /\ procs' = procs
             /\ promises' = promises
             /\ nodes' = [nodes EXCEPT ![n].disposeCalls = 2]]_vars

(* a launcher with a killed child, disposed twice *)
C8_Witness ==
  \E n \in DOMAIN nodes :
    /\ nodes[n].disposeCalls = 2
    /\ nodes[n].proc # NoProc
    /\ procs[nodes[n].proc].killed

(* C9: clear() and dispose() of a window never throw; after either the    *)
(* window holds no launcher; and called on a window that holds none, they *)
(* leave every launcher, promise and child as they were.                  *)
C9_ClearOnNoProcess ==
  /\ [](/\ "CodeWindow.clear" \notin threw
        /\ "CodeWindow.dispose" \notin threw
        /\ \A w \in Windows : clearCalls[w] >= 1 => winNode[w] = NoNode)
  /\ [][\A w \in Windows :
          (winNode[w] = NoNode /\ clearCalls'[w] > clearCalls[w]) =>
             /\ winNode'[w] = NoNode
             /\ UNCHANGED <<nodes, promises, procs>>]_vars

(* clear() called twice on a window that was never started *)
C9_Witness ==
  \E w \in Windows :
    /\ clearCalls[w] = 2
    /\ StartsOf(w) = {}
    /\ metaListener[w]
    /\ winNode[w] = NoNode

(* C10: no two start() calls use the same transport address, no two       *)
(* children are launched with the same address, and no launcher or child  *)
(* belongs to two windows.                                                *)
C10_FreshAddress ==
  /\ \A i, j \in DOMAIN starts :
       (i # j /\ starts[i].pc # "rejected" /\ starts[j].pc # "rejected") =>
          starts[i].addr # starts[j].addr
  /\ \A p, q \in DOMAIN procs : p # q => procs[p].args # procs[q].args
  /\ \A v, w \in Windows :
       (v # w /\ winNode[v] # NoNode) => winNode[v] # winNode[w]
  /\ \A w \in Windows : winNode[w] # NoNode => nodes[winNode[w]].owner = w
  /\ \A i \in DOMAIN starts :
       starts[i].node # NoNode => nodes[starts[i].node].owner = starts[i].win

(* two windows started, each holding its own launcher with a child *)
C10_Witness ==
  \E i, j \in DOMAIN starts :
    /\ starts[i].win # starts[j].win
    /\ winNode[starts[i].win] = starts[i].node
    /\ winNode[starts[j].win] = starts[j].node
    /\ nodes[starts[i].node].proc # NoProc
    /\ nodes[starts[j].node].proc # NoProc

----------------------------------------------------------------------------
ShownStarts(w) == {i \in StartsOf(w) : starts[i].shown}
PushedBy(w) == {starts[i].addr : i \in ShownStarts(w)}

(* C11: the address of a start() is one uuid() has handed out, the child  *)
(* forked by that start() has exactly that address as its --listenPath    *)
(* argument (so it was allocated before the fork), and the listeners a    *)
(* window's starts registered push those same addresses, one listener per *)
(* start() that got to load the content, and nothing else.                *)
C11_SameAddress ==
  /\ \A i \in DOMAIN starts : starts[i].pc # "rejected" =>
        /\ starts[i].addr \in {SockPath(t) : t \in 1..uuidCount}
        /\ \A p \in DOMAIN procs : procs[p].node = starts[i].node =>
              procs[p].args = <<"--listenPath", starts[i].addr>>
  /\ \A w \in Windows :
        /\ {browser[w].pushListeners[k] : k \in DOMAIN browser[w].pushListeners}
              = PushedBy(w)
        /\ Len(browser[w].pushListeners) = Cardinality(ShownStarts(w))
        /\ \A k \in DOMAIN browser[w].sent : browser[w].sent[k].addr \in PushedBy(w)

(* an address was pushed to the content, and it is the --listenPath of    *)
(* the child the same start() forked                                      *)
C11_Witness ==
  \E w \in Windows, i \in DOMAIN starts, p \in DOMAIN procs :
     /\ i \in ShownStarts(w)
     /\ procs[p].node = starts[i].node
     /\ \E k \in DOMAIN browser[w].sent :
           /\ browser[w].sent[k].addr = starts[i].addr
           /\ procs[p].args[2] = browser[w].sent[k].addr

(* C12: the post-load push is one-shot: an address is delivered to a      *)
(* window's content at most once, however often the content finishes      *)
(* loading.                                                               *)
C12_PushOneShot ==
  \A w \in Windows : \A j, k \in DOMAIN browser[w].sent :
     browser[w].sent[j].addr = browser[w].sent[k].addr => j = k

Rejected(i) == /\ starts[i].gate # NoPromise
               /\ promises[starts[i].gate].state = "rejected"

(* C13: start() never rejects or throws to its caller; a start() whose    *)
(* launcher promise was rejected has returned having logged that error,   *)
(* without loading or showing the window and without a push listener of   *)
(* its address; and the step in which it handles the rejection leaves the *)
(* native windows untouched.                                              *)
C13_RejectionLoggedOnly ==
  /\ [](\A i \in DOMAIN starts :
          /\ starts[i].pc # "rejected"
          /\ (Rejected(i) /\ starts[i].pc = "returned") =>
                /\ starts[i].logged = promises[starts[i].gate].err
                /\ ~starts[i].shown
                /\ \A k \in DOMAIN browser[starts[i].win].pushListeners :
                      browser[starts[i].win].pushListeners[k] # starts[i].addr)
  /\ [][\A i \in DOMAIN starts :
          (starts[i].pc = "await" /\ starts'[i].pc # "await"
             /\ promises'[starts[i].gate].state = "rejected")
          => browser' = browser]_vars

(* a start() has returned after the child's 'error' rejected its launcher *)
C13_Witness ==
  \E i \in DOMAIN starts :
     /\ Rejected(i)
     /\ starts[i].pc = "returned"
     /\ starts[i].logged \in Errors
     /\ ~browser[starts[i].win].loaded

(* C14: a window is created hidden and unloaded; it is loaded or shown    *)
(* only if one of its start() calls did so after that call's launcher     *)
(* promise resolved; and the step that loads or shows it is the           *)
(* continuation of a start() that was suspended at its await and whose    *)
(* launcher promise is resolved.                                          *)
C14_LoadedOnlyAfterReady ==
  /\ [](\A w \in Windows :
          /\ (StartsOf(w) = {}) => (~browser[w].loaded /\ ~browser[w].shown)
          /\ (browser[w].loaded \/ browser[w].shown) =>
                \E i \in StartsOf(w) :
                   /\ starts[i].shown
                   /\ promises[starts[i].gate].state = "resolved")
  /\ [][\A w \in Windows :
          (browser'[w].loaded # browser[w].loaded \/ browser'[w].shown # browser[w].shown
             \/ browser'[w].pushListeners # browser[w].pushListeners)
          => \E i \in StartsOf(w) :
                /\ starts[i].pc = "await"
                /\ promises[starts[i].gate].state = "pending"
                /\ starts'[i].pc = "returned"
                /\ promises'[starts[i].gate].state = "resolved"
                /\ browser'[w].loaded /\ browser'[w].shown]_vars

(* a window is loaded and shown by its first start() while its second,    *)
(* current start() is still waiting for its launcher                      *)
C14_Witness ==
  \E w \in Windows : \E i, j \in StartsOf(w) :
     /\ i < j
     /\ browser[w].loaded /\ browser[w].shown
     /\ starts[i].shown
     /\ starts[j].pc = "await"

----------------------------------------------------------------------------
(* the reader's view of a response: JSON.parse(text)[k] *)
Field(r, k) == IF k \in DOMAIN r THEN r[k] ELSE JsUndefined
ComputedKeys == {"workspace", "webview", "extensionDir"}
Answered == query.returnValue # <<>>

(* C15: a query carrying identity W is answered by no handler but the one *)
(* of window W, and every field of the response is W's own: the value of  *)
(* W's extra metadata for that key, or else the value computed for W      *)
(* (W's workspace among them); no key comes from elsewhere.               *)
C15_AnsweredOnlyByOwner ==
  /\ query.answeredBy \subseteq ({query.windowId} \cap Windows)
  /\ Answered =>
       LET W == query.windowId
           r == query.returnValue[1]
       IN /\ query.answeredBy = {W}
          /\ DOMAIN r \subseteq ComputedKeys \cup DOMAIN metadata[W]
          /\ \A k \in DOMAIN r :
                r[k] = IF k \in DOMAIN metadata[W] THEN metadata[W][k]
                       ELSE Defaults(W)[k]
          /\ ("workspace" \notin DOMAIN metadata[W]) =>
                Field(r, "workspace") = JsValue(workspace(W))

(* both windows listen, a query for one was answered, and the other       *)
(* window's answer would have been different                              *)
C15_Witness ==
  /\ \A w \in Windows : metaListener[w]
  /\ Answered
  /\ \E w \in Windows \ {query.windowId} :
        /\ metadata[w] # metadata[query.windowId]
        /\ \E k \in DOMAIN metadata[w] :
              Field(query.returnValue[1], k) # metadata[w][k]

(* C16: in a response, for every key that is both a computed field        *)
(* (workspace, webview, extensionDir) and a key of the window's extra     *)
(* metadata, the reader finds the extra value.                            *)
C16_ExtraWins ==
  Answered =>
    \A k \in ComputedKeys \cap DOMAIN metadata[query.windowId] :
       Field(query.returnValue[1], k) = metadata[query.windowId][k]

(* a response whose extensionDir is the extra one, not the computed one *)
C16_Witness ==
  /\ Answered
  /\ "extensionDir" \in DOMAIN metadata[query.windowId]
  /\ Field(query.returnValue[1], "extensionDir") = Str("/custom")
  /\ Field(query.returnValue[1], "extensionDir") # Defaults(query.windowId).extensionDir

(* C17: when a window's 'closed' event fires, the window gives up its     *)
(* launcher, every child it forked has been killed and its metadata       *)
(* handler is unregistered; removeListener runs once per window and never *)
(* again; a query for a window whose handler is unregistered gets no      *)
(* answer; dispose() never throws, and on a disposed window that holds no *)
(* launcher a further clear()/dispose() changes nothing.                  *)
C17_ClosedDisposes ==
  /\ [](/\ "CodeWindow.dispose" \notin threw
        /\ \A w \in Windows :
             /\ disposable[w].removals <= 1
             /\ metaListener[w] <=> disposable[w].removals = 0
             /\ browser[w].closed => (~metaListener[w] /\ disposable[w].removals = 1))
  /\ [][\A w \in Windows :
          /\ (~browser[w].closed /\ browser'[w].closed) =>
                /\ winNode'[w] = NoNode
                /\ \A p \in DOMAIN procs :
                      nodes[procs[p].node].owner = w => procs'[p].killed
                /\ ~metaListener'[w]
                /\ disposable'[w].removals = 1
          /\ (query' # query /\ query'.windowId = w /\ ~metaListener[w]) =>
                query'.returnValue = <<>>
          /\ (disposable[w].disposers = 0) =>
                /\ metaListener'[w] = metaListener[w]
                /\ disposable'[w] = disposable[w]
          /\ (disposable[w].disposers = 0 /\ winNode[w] = NoNode
                 /\ clearCalls'[w] > clearCalls[w]) =>
                /\ winNode'[w] = NoNode
                /\ UNCHANGED <<nodes, promises, procs, metaListener, disposable,
                               starts, query>>]_vars

(* a started window was closed and then disposed again; its child is      *)
(* killed, and a query for it went unanswered while the other window      *)
(* still listens                                                          *)
C17_Witness ==
  \E w \in Windows :
     /\ browser[w].closed
     /\ clearCalls[w] = 2
     /\ ProcsOf(w) # {}
     /\ \A p \in ProcsOf(w) : procs[p].killed
     /\ query.windowId = w
     /\ ~Answered
     /\ \E v \in Windows \ {w} : metaListener[v]

(* C18: disposal is terminal: a window whose native window has closed     *)
(* owns no extension host process that is forked and not killed,          *)
(* whatever is called on it afterwards.                                   *)
C18_DisposalTerminal ==
  \A w \in Windows : browser[w].closed => \A p \in ProcsOf(w) : ~Live(p)

(* the URLs of Urls with scheme http or https *)
HttpUrls == { <<"h", "t", "t", "p", ":", "/", "/", "a">>,
              <<"h", "t", "t", "p", "s", ":", "/", "/", "a">> }

C20_ChildLaunch ==
  \A i \in DOMAIN starts : \A p \in DOMAIN procs :
     (starts[i].node # NoNode /\ procs[p].node = starts[i].node) =>
        LET a == starts[i].addr
            w == workspace(starts[i].win)
            e == procs[p].env
        IN /\ procs[p].args = <<"--listenPath", a>>
           /\ {"KTELECTRON", "EXTENSION_HOST_ENTRY"} \subseteq DOMAIN e
           /\ e.KTELECTRON = "1"
           /\ e.EXTENSION_HOST_ENTRY = ExtensionEntry
           /\ IF w = Undefined THEN "WORKSPACE_DIR" \notin DOMAIN e
              ELSE "WORKSPACE_DIR" \in DOMAIN e /\ e.WORKSPACE_DIR = w

(* a child forked for the window with workspace "/proj" and one for the   *)
(* window without workspace                                               *)
C20_Witness ==
  \E p, q \in DOMAIN procs :
     /\ "WORKSPACE_DIR" \in DOMAIN procs[p].env
     /\ procs[p].env.WORKSPACE_DIR = "/proj"
     /\ nodes[procs[p].node].owner = 1
     /\ "WORKSPACE_DIR" \notin DOMAIN procs[q].env
     /\ nodes[procs[q].node].owner = 2

----------------------------------------------------------------------------
(* C21: the promise of a forked child is settled by the first 'ready'     *)
(* message or 'error' event of that child and by nothing else: while the  *)
(* child has delivered neither, the promise is pending, whatever else     *)
(* happens (other messages, kill, clear, dispose, close), and the         *)
(* CodeWindow.start() awaiting it has not returned; once one was          *)
(* delivered, the outcome is that first signal's.                         *)
C21_SettledOnlyBySignal ==
  /\ \A p \in DOMAIN procs :
        LET g == promises[procs[p].gate]
        IN /\ procs[p].first = NoError => g.state = "pending"
           /\ procs[p].first = "ready" => g.state = "resolved"
           /\ procs[p].first \in Errors =>
                 (g.state = "rejected" /\ g.err = procs[p].first)
  /\ \A i \in DOMAIN starts :
        (starts[i].gate # NoPromise /\ promises[starts[i].gate].state = "pending")
           => starts[i].pc = "await"

(* a start() still waits on a child that was killed and has sent only     *)
(* messages other than 'ready'                                            *)
C21_Witness ==
  \E i \in DOMAIN starts : \E p \in DOMAIN procs :
     /\ procs[p].node = starts[i].node
     /\ procs[p].killed
     /\ procs[p].first = NoError
     /\ nevents = MaxEvents
     /\ starts[i].pc = "await"
     /\ promises[starts[i].gate].state = "pending"

(* the children launched with address a *)
LaunchedWith(a) == {p \in DOMAIN procs : procs[p].args = <<"--listenPath", a>>}

(* C22: every address pushed to a window's content, and every address a   *)
(* registered push listener holds, is the address of a child that was     *)
(* forked and has sent 'ready'; a window with content has such a child.   *)
C22_PushedAfterReady ==
  \A w \in Windows :
     /\ \A k \in DOMAIN browser[w].sent :
           /\ LaunchedWith(browser[w].sent[k].addr) # {}
           /\ \A p \in LaunchedWith(browser[w].sent[k].addr) : procs[p].gotReady
     /\ \A k \in DOMAIN browser[w].pushListeners :
           /\ LaunchedWith(browser[w].pushListeners[k]) # {}
           /\ \A p \in LaunchedWith(browser[w].pushListeners[k]) : procs[p].gotReady
     /\ browser[w].loaded =>
           \E p \in ProcsOf(w) : procs[p].gotReady

(* an address was pushed while another child of the window, forked by a   *)
(* later start(), has not sent 'ready'                                    *)
C22_Witness ==
  \E w \in Windows :
     /\ browser[w].sent # <<>>
     /\ \E p \in LaunchedWith(browser[w].sent[1].addr) : procs[p].gotReady
     /\ \E q \in ProcsOf(w) : ~procs[q].gotReady

(* the address the child of the launcher held by window w was launched    *)
(* with; SockPath(0) when the window holds none                           *)
HeldAddress(w) ==
  IF winNode[w] # NoNode /\ nodes[winNode[w]].proc # NoProc
  THEN procs[nodes[winNode[w]].proc].args[2]
  ELSE SockPath(0)

(* C23: on a window where start() has succeeded more than once, a         *)
(* 'did-finish-load' event pushes no address but that of the child the    *)
(* window holds at that moment.                                           *)
C23_PushOnlyCurrent ==
  [][\A w \in Windows :
       (Cardinality(ShownStarts(w)) >= 2 /\ browser'[w].loads > browser[w].loads) =>
          \A k \in DOMAIN browser'[w].sent :
             k > Len(browser[w].sent) => browser'[w].sent[k].addr = HeldAddress(w)]_vars

(* C24: when every child that is not killed signals, every start() that   *)
(* is waiting for its launcher eventually returns.                        *)
C24_StartReturns ==
  \A i \in 1..MaxNodes :
     (i \in DOMAIN starts /\ starts[i].pc = "await")
        ~> (i \in DOMAIN starts /\ starts[i].pc # "await")

(* C25: whatever the number of 'new-window' listeners a window has, one   *)
(* 'new-window' event leads to at most one call of shell.openExternal,    *)
(* and to none when the URL does not start with "http".                   *)
C25_OpenedAtMostOnce ==
  \A w \in Windows :
     /\ browser[w].newWindow.opened <= 1
     /\ browser[w].newWindow.url \notin HttpUrls => browser[w].newWindow.opened = 0

(* a window with two listeners opened an http URL once *)
C25_Witness ==
  \E w \in Windows :
     /\ browser[w].newWindowHandlers = 2
     /\ browser[w].newWindow.url = <<"h", "t", "t", "p", ":", "/", "/", "a">>
     /\ browser[w].newWindow.opened = 1


(* the promises of kind `of` made so far on the Extension *)
PromisesOf(of) == {g \in DOMAIN extension.promises : extension.promises[g].of = of}

(* the invocations of a method of the Extension *)
CallsOf(method) == {i \in DOMAIN extension.calls : extension.calls[i].method = method}

(* this step is an invocation of the method *)
Invokes(method) ==
  /\ Len(extension'.calls) = Len(extension.calls) + 1
  /\ extension'.calls[Len(extension'.calls)].method = method

(* C26: activate() never rejects; activeExtension is called at most once  *)
(* per Extension however many activate() calls are made; `activated` is   *)
(* true only once that call has resolved; a failed activation is logged,  *)
(* leaves `activated` not true and is never retried.                      *)
C26_ActivateOnce ==
  /\ \A i \in CallsOf("activate") : extension.calls[i].result # "rejected"
  /\ Cardinality(PromisesOf("activeExtension")) <= 1
  /\ extension.activated = "true" =>
       \E s \in PromisesOf("activeExtension") : extension.promises[s].state = "resolved"
  /\ \A s \in PromisesOf("activeExtension") :
       extension.promises[s].state = "rejected" =>
         /\ extension.logged = 1
         /\ extension.activated # "true"
         /\ \A i \in CallsOf("activate") : extension.calls[i].result = "resolved"

C26_Witness ==
  /\ Cardinality(CallsOf("activate")) = MaxCalls
  /\ \E s \in PromisesOf("activeExtension") : extension.promises[s].state = "rejected"
  /\ extension.logged = 1

(* C27: enable() starts no run when isUseEnable is false or the extension *)
(* is already enabled; at most one run is in flight at any time, an       *)
(* enable() made during a run returns the promise of that run; and apart  *)
(* from the setter, `enabled` turns true only in the step in which a run  *)
(* resolves.                                                              *)
C27_EnableShares ==
  /\ [](/\ ~extension.isUseEnable => PromisesOf("run") = {}
        /\ Cardinality(Pending(extension, "run")) <= 1)
  /\ [][
        /\ (Invokes("enable") /\ (~extension.isUseEnable \/ extension.enabled = "true")) =>
             /\ extension'.promises = extension.promises
             /\ extension'.enabled = extension.enabled
             /\ extension'.enabling = extension.enabling
             /\ extension'.calls[Len(extension'.calls)].result = "resolved"
        /\ (Invokes("enable") /\ Pending(extension, "run") # {}) =>
             /\ extension'.promises = extension.promises
             /\ (extension.isUseEnable /\ extension.enabled # "true") =>
                  extension'.calls[Len(extension'.calls)].follows \in Pending(extension, "run")
        /\ (extension'.enabled = "true" /\ extension.enabled # "true") =>
             \/ \E b \in BOOLEAN : SetEnabled(b)
             \/ \E r \in Pending(extension, "run") : extension'.promises[r].state = "resolved"
     ]_vars

C27_Witness ==
  /\ extension.enabled = "true"
  /\ \E r \in PromisesOf("run") :
       /\ extension.promises[r].state = "resolved"
       /\ Cardinality({i \in CallsOf("enable") : extension.calls[i].follows = r
                                                /\ extension.calls[i].result = "resolved"}) >= 2

(* C28: in every interleaving of provide, resolve and release on one      *)
(* CompletionAdapter, no resolveCompletionItem fails with 'DisposableStore *)
(* is missing...'.                                                        *)
C28_ResolveNeverMissing ==
  \A k \in DOMAIN adapter.resolves : adapter.resolves[k].state # "missing"

(* C29: every read of TerminalImpl.processId returns a promise that is    *)
(* settled with the process id: with the id set by setProcessId, the      *)
(* service not being asked, or with the id the service returned, -1 when  *)
(* it returned none; until the service answers the promise is pending.    *)
C29_ReadYieldsId ==
  \A k \in DOMAIN terminal.reads :
    \/ terminal.reads[k].state = "pending"
    \/ terminal.reads[k].state = "resolved" /\ terminal.reads[k].value # NoId

(* the sessions started after onStart(), and those started when a         *)
(* listener of onDidStartDebugSession was registered                      *)
StartedAfterOnStart == {k \in DOMAIN debug.sessions : debug.sessions[k].afterOnStart}
Handled == {k \in DOMAIN debug.sessions : debug.sessions[k].listeners > 0}

(* C30 as stated: of the sessions started after onStart(), one of         *)
(* 'openOnFirstSessionStart' has the view opened only if it is the first  *)
(* of them; firstSessionStart is false once one of them has started,      *)
(* whatever its settings; one of 'openOnSessionStart' that is not noDebug *)
(* has the view opened.                                                   *)
C30_OpenedOnStart ==
  /\ \A k \in StartedAfterOnStart :
       /\ (debug.sessions[k].openDebug = "openOnFirstSessionStart"
           /\ debug.sessions[k].opened > 0) => \A j \in StartedAfterOnStart : k <= j
       /\ (debug.sessions[k].openDebug = "openOnSessionStart" /\ ~debug.sessions[k].noDebug)
            => debug.sessions[k].opened > 0
  /\ StartedAfterOnStart # {} => ~debug.firstSessionStart

(* C30, amended: the same of the sessions started while the listeners of  *)
(* onStart() are registered, which they are after onStart() outside the   *)
(* Electron renderer only; firstSessionStart, once false, stays false.    *)
C30_OpenedOnStartWhenListening ==
  /\ \A k \in Handled :
       /\ (debug.sessions[k].openDebug = "openOnFirstSessionStart"
           /\ debug.sessions[k].opened > 0) => \A j \in Handled : k <= j
       /\ (debug.sessions[k].openDebug = "openOnSessionStart" /\ ~debug.sessions[k].noDebug)
            => debug.sessions[k].opened > 0
  /\ Handled # {} => ~debug.firstSessionStart
  /\ Handled = IF debug.isElectronRenderer THEN {} ELSE StartedAfterOnStart

C30_Witness ==
  /\ ~debug.isElectronRenderer
  /\ \E j, k \in Handled :
       /\ j < k
       /\ debug.sessions[j].noDebug
       /\ debug.sessions[k].openDebug = "openOnFirstSessionStart"
       /\ ~debug.sessions[k].noDebug
       /\ debug.sessions[k].opened = 0

====
